---------------------------- MODULE Spec2Model ----------------------------
(***************************************************************************)
(* Model of CourseQualityView (cms/djangoapps/contentstore/api/views/      *)
(* course_quality.py): the read-only course quality report.                *)
(*                                                                         *)
(* State: the document store (the course tree), the records the video      *)
(* pipeline (VAL) holds for the course, and the last request with what the *)
(* view did for it (response, store calls, request cache).  The course     *)
(* authors and the video pipeline are the environment: they edit the store *)
(* between requests.  One action, Get, is the whole handler.               *)
(***************************************************************************)
EXTENDS Integers, Sequences, FiniteSets, TLC

VARIABLES
    store,        \* modulestore: usage key -> block (key 0 is the course)
    valVideos,    \* edxval: durations of the course's encoded videos
    editsLeft,    \* edits the environment may still make
    request,      \* the request being answered, or NoRequest
    response,     \* the response returned for it, or NoResponse
    storeCalls,   \* store operations invoked while answering it
    loadDepth,    \* depth passed to store.get_course
    requestCache, \* RequestCache contents when the response is returned
    bodyRuns      \* executions of the bodies of the @request_cached methods

vars == <<store, valVideos, editsLeft, request, response, storeCalls,
          loadDepth, requestCache, bodyRuns>>

-----------------------------------------------------------------------------
(* Bounds of the model. *)

\* Edits the environment makes to the reference course.
MaxEdits == 2
\* Largest duration the video pipeline records.
MaxDuration == 2
\* _stats_dict inputs: sequences of at most MaxLen integers in -MaxAbs..MaxAbs.
MaxLen == 4
MaxAbs == 3

-----------------------------------------------------------------------------
(* Values. *)

HTTP_200_OK == 200
HTTP_403_FORBIDDEN == 403

\* Python's None, and a number, as an optional value.
None == <<>>
Num(x) == <<x>>

Range(s) == {s[i] : i \in 1..Len(s)}

RECURSIVE SumSeq(_)
SumSeq(s) == IF s = <<>> THEN 0 ELSE Head(s) + SumSeq(Tail(s))

RECURSIVE Insert(_, _)
Insert(x, s) ==
    IF s = <<>> THEN <<x>>
    ELSE IF x <= Head(s) THEN <<x>> \o s
    ELSE <<Head(s)>> \o Insert(x, Tail(s))

RECURSIVE Sorted(_)
Sorted(s) == IF s = <<>> THEN <<>> ELSE Insert(Head(s), Sorted(Tail(s)))

\* The elements of a set of integers in ascending order.
RECURSIVE SetToSeq(_)
SetToSeq(S) ==
    IF S = {} THEN <<>>
    ELSE LET m == CHOOSE x \in S : \A y \in S : x <= y
         IN <<m>> \o SetToSeq(S \ {m})

-----------------------------------------------------------------------------
(* numpy / scipy. *)

\* np.around of the rational p/q (q > 0): to the nearest integer, an exact
\* half to the nearest even integer.
NpAround(p, q) ==
    LET f == p \div q
        r == p - f * q
    IN  IF 2 * r < q THEN f
        ELSE IF 2 * r > q THEN f + 1
        ELSE IF f % 2 = 0 THEN f ELSE f + 1

\* np.mean(data) as the rational <<sum, n>>.
NpMean(data) == <<SumSeq(data), Len(data)>>

\* np.median(data) as a rational: the middle of the sorted data, the average
\* of the two middle values when there is an even number of them.
NpMedian(data) ==
    LET s == Sorted(data)
        n == Len(data)
    IN  IF n % 2 = 1 THEN <<s[(n + 1) \div 2], 1>>
        ELSE <<s[n \div 2] + s[n \div 2 + 1], 2>>

Count(data, v) == Cardinality({i \in 1..Len(data) : data[i] = v})

\* stats.mode(data, axis=None)[0][0]: the most frequent value, the smallest
\* of them on a tie.
StatsMode(data) ==
    CHOOSE v \in Range(data) :
        /\ \A w \in Range(data) : Count(data, w) <= Count(data, v)
        /\ \A w \in Range(data) : Count(data, w) = Count(data, v) => v <= w

StatsDictHalfUp(data) ==
    IF data = <<>>
    THEN [min |-> None, max |-> None, mean |-> None, median |-> None, mode |-> None]
    ELSE [min |-> Num(CHOOSE x \in Range(data) : \A y \in Range(data) : x <= y),
          max |-> Num(CHOOSE x \in Range(data) : \A y \in Range(data) : y <= x),
          mean |-> Num((2 * NpMean(data)[1] + NpMean(data)[2]) \div (2 * NpMean(data)[2])),
          median |-> Num((2 * NpMedian(data)[1] + NpMedian(data)[2]) \div (2 * NpMedian(data)[2])),
          mode |-> Num(StatsMode(data))]

\* _stats_dict
StatsDict(data) ==
    IF data = <<>>
    THEN [min |-> None, max |-> None, mean |-> None, median |-> None, mode |-> None]
    ELSE [min |-> Num(CHOOSE x \in Range(data) : \A y \in Range(data) : x <= y),
          max |-> Num(CHOOSE x \in Range(data) : \A y \in Range(data) : y <= x),
          mean |-> Num(NpAround(NpMean(data)[1], NpMean(data)[2])),
          median |-> Num(NpAround(NpMedian(data)[1], NpMedian(data)[2])),
          mode |-> Num(StatsMode(data))]

-----------------------------------------------------------------------------
(* The request. *)

Absent == "absent"
ParamNames == {"all", "sections", "subsections", "units", "videos", "exclude_graded"}
NoRequest == [params |-> <<>>, author |-> FALSE]
NoResponse == [status |-> 0, body |-> <<>>]

Lower(v) ==
    CASE v = "True" -> "true"
      [] v = "TRUE" -> "true"
      [] v = "False" -> "false"
      [] v = "FALSE" -> "false"
      [] OTHER -> v

\* get_bool_param(request, param_name, default): the parameter parsed
\* case-insensitively from "true"/"false"; a true default ("all") forces the
\* value on whatever the parameter itself says.
GetBoolParam(req, param_name, default) ==
    \/ default
    \/ /\ req.params[param_name] # Absent
       /\ Lower(req.params[param_name]) = "true"

\* has_course_author_access(request.user, course_key)
HasCourseAuthorAccess(req) == req.author

\* _required_course_depth: None is the whole tree.
RequiredCourseDepth(req, all_requested) ==
    IF GetBoolParam(req, "units", all_requested) THEN "None"
    ELSE IF GetBoolParam(req, "subsections", all_requested) THEN "None"
    ELSE IF GetBoolParam(req, "sections", all_requested) THEN "1"
    ELSE "0"

-----------------------------------------------------------------------------
(* The document store. *)

CourseKey == 0

Container(block_type, children) ==
    [block_type |-> block_type, children |-> children,
     visible_to_staff_only |-> FALSE, hide_from_toc |-> FALSE,
     graded |-> FALSE, highlights |-> <<>>, edx_video_id |-> ""]

\* A block type without children has no children field at all.
Leaf(block_type) ==
    [block_type |-> block_type,
     visible_to_staff_only |-> FALSE, hide_from_toc |-> FALSE,
     graded |-> FALSE, highlights |-> <<>>, edx_video_id |-> ""]

CourseBlock(children) ==
    [block_type |-> "course", children |-> children,
     visible_to_staff_only |-> FALSE, hide_from_toc |-> FALSE,
     graded |-> FALSE, highlights |-> <<>>, edx_video_id |-> "",
     self_paced |-> TRUE, highlights_enabled_for_messaging |-> TRUE]

\* The course the environment starts from (keys in pre-order):
\*   course 0
\*     chapter 1 (highlights)
\*       sequential 2
\*         vertical 3: video 4 (pipeline id), video 5
\*         vertical 6: html 7
\*     chapter 8
\*       sequential 9 (graded)
\*         vertical 10: split_test 11 (html 12), problem 13
ReferenceKeys == 0..13
ReferenceCourse ==
    [k \in ReferenceKeys |->
        CASE k = 0 -> CourseBlock(<<1, 8>>)
          [] k = 1 -> [Container("chapter", <<2>>) EXCEPT !.highlights = <<"week 1">>]
          [] k = 2 -> Container("sequential", <<3, 6>>)
          [] k = 3 -> Container("vertical", <<4, 5>>)
          [] k = 4 -> [Leaf("video") EXCEPT !.edx_video_id = "val-4"]
          [] k = 5 -> Leaf("video")
          [] k = 6 -> Container("vertical", <<7>>)
          [] k = 7 -> Leaf("html")
          [] k = 8 -> Container("chapter", <<9>>)
          [] k = 9 -> [Container("sequential", <<10>>) EXCEPT !.graded = TRUE]
          [] k = 10 -> Container("vertical", <<11, 13>>)
          [] k = 11 -> Container("split_test", <<12>>)
          [] k = 12 -> Leaf("html")
          [] k = 13 -> Leaf("problem")]

\* The pipeline's records for the reference course: video 4, two seconds long.
ReferenceValVideos == <<[duration |-> 2]>>

-----------------------------------------------------------------------------
(* Tree accessors. *)

\* _get_children
GetChildren(parent) ==
    IF "children" \notin DOMAIN store[parent] THEN <<>>
    ELSE store[parent].children

IsVisible(k) == ~store[k].visible_to_staff_only /\ ~store[k].hide_from_toc

GetAllChildrenIgnoringStaffOnly(parent) ==
    [children |-> GetChildren(parent),
     visible_children |-> SelectSeq(GetChildren(parent), LAMBDA k : ~store[k].hide_from_toc)]

\* _get_all_children: store.get_item(key) is store[key], and a block is
\* passed around as its key.
GetAllChildren(parent) ==
    [children |-> GetChildren(parent),
     visible_children |-> SelectSeq(GetChildren(parent), IsVisible)]

\* _get_visible_children
GetVisibleChildren(parent) == GetAllChildren(parent).visible_children

\* traverse_pre_order(start_node, get_children, filter_func): the nodes
\* reached from start_node through get_children, parents before children and
\* children in their order, of which those passing filter_func are yielded.
RECURSIVE TraversePreOrder(_, _, _)
RECURSIVE TraverseEach(_, _, _)
TraversePreOrder(node, get_children, filter_func) ==
    (IF filter_func[node] THEN <<node>> ELSE <<>>)
        \o TraverseEach(get_children[node], get_children, filter_func)

TraverseEach(nodes, get_children, filter_func) ==
    IF nodes = <<>> THEN <<>>
    ELSE TraversePreOrder(Head(nodes), get_children, filter_func)
            \o TraverseEach(Tail(nodes), get_children, filter_func)

GetLeafBlocksNoVisibleChildren(unit) ==
    TraversePreOrder(unit,
                     [b \in DOMAIN store |-> GetVisibleChildren(b)],
                     [b \in DOMAIN store |-> Len(GetVisibleChildren(b)) = 0])

\* _get_leaf_blocks
GetLeafBlocks(unit) ==
    TraversePreOrder(unit,
                     [b \in DOMAIN store |-> GetVisibleChildren(b)],
                     [b \in DOMAIN store |-> Len(GetChildren(b)) = 0])

-----------------------------------------------------------------------------
(* The request cache.  A context ctx = [cache, runs, calls] is threaded     *)
(* through the handler: the RequestCache, how often each cached method's   *)
(* body ran, and the store operations invoked so far.  A method returns    *)
(* [val, ctx].                                                             *)

\* The RequestCache with nothing cached.
EmptyRequestCache ==
    [get_sections |-> None, get_subsections_and_units |-> None]

NoRuns == [get_sections |-> 0, get_subsections_and_units |-> 0]

\* @request_cached: the value cached under the call's key if there is one,
\* else the body's value, which is then cached.  Within one request each
\* method is called with the same arguments, so its name is the key.
RequestCached(ctx, key, computed) ==
    IF ctx.cache[key] # None
    THEN [val |-> ctx.cache[key][1], ctx |-> ctx]
    ELSE [val |-> computed.val,
          ctx |-> [computed.ctx EXCEPT !.cache[key] = <<computed.val>>]]

\* The body of _get_sections: get_item is called once per child.
GetSectionsBody(ctx, course) ==
    [val |-> GetAllChildren(course),
     ctx |-> [ctx EXCEPT !.runs.get_sections = @ + 1,
                         !.calls = @ \cup (IF GetChildren(course) # <<>>
                                           THEN {"get_item"} ELSE {})]]

GetSectionsUncached(ctx, course) == GetSectionsBody(ctx, course)

\* _get_sections, with its decorator
GetSections(ctx, course) ==
    RequestCached(ctx, "get_sections", GetSectionsBody(ctx, course))

RECURSIVE Flatten(_)
Flatten(ss) == IF ss = <<>> THEN <<>> ELSE Head(ss) \o Flatten(Tail(ss))

\* unit_dict of one subsection
UnitDict(subsection) ==
    [unit \in Range(GetVisibleChildren(subsection)) |->
        [num_leaf_blocks |-> Len(GetLeafBlocks(unit)),
         leaf_block_types |->
            {store[b].block_type : b \in Range(GetLeafBlocks(unit))}]]

VisibleSubsectionsKeepingGraded(section, req) == GetVisibleChildren(section)

\* The visible subsections of one section, less the graded ones on request.
VisibleSubsections(section, req) ==
    IF GetBoolParam(req, "exclude_graded", FALSE)
    THEN SelectSeq(GetVisibleChildren(section), LAMBDA s : ~store[s].graded)
    ELSE GetVisibleChildren(section)

\* The body of _get_subsections_and_units:
\* {subsection: {unit: {num_leaf_blocks, leaf_block_types}}}
GetSubsectionsAndUnitsBody(ctx, course, req) ==
    LET sections == GetSections(ctx, course)
        visible_sections == sections.val.visible_children
        subsections ==
            Flatten([i \in 1..Len(visible_sections) |->
                        VisibleSubsections(visible_sections[i], req)])
    IN  [val |-> [subsection \in Range(subsections) |-> UnitDict(subsection)],
         ctx |-> [sections.ctx EXCEPT !.runs.get_subsections_and_units = @ + 1]]

\* _get_subsections_and_units, with its decorator
GetSubsectionsAndUnits(ctx, course, req) ==
    RequestCached(ctx, "get_subsections_and_units",
                  GetSubsectionsAndUnitsBody(ctx, course, req))

-----------------------------------------------------------------------------
(* The aggregator. *)

SectionsQualityAllHighlights(ctx, course) ==
    LET s == GetSections(ctx, course)
    IN  [val |-> [total_number |-> Len(s.val.children),
                  total_visible |-> Len(s.val.visible_children),
                  number_with_highlights |->
                      Len(SelectSeq(s.val.children,
                                    LAMBDA k : store[k].highlights # <<>>)),
                  highlights_enabled |->
                      store[course].highlights_enabled_for_messaging],
         ctx |-> s.ctx]

\* _sections_quality
SectionsQuality(ctx, course) ==
    LET s == GetSections(ctx, course)
    IN  [val |-> [total_number |-> Len(s.val.children),
                  total_visible |-> Len(s.val.visible_children),
                  number_with_highlights |->
                      Len(SelectSeq(s.val.visible_children,
                                    LAMBDA k : store[k].highlights # <<>>)),
                  highlights_enabled |->
                      store[course].highlights_enabled_for_messaging],
         ctx |-> s.ctx]

\* num_block_types_per_subsection_dict: the size of the union of the leaf
\* block types of the subsection's units.
NumBlockTypes(unit_dict) ==
    Cardinality(UNION {unit_dict[u].leaf_block_types : u \in DOMAIN unit_dict})

\* The values of a dict keyed by usage keys, as a list.
Values(dict) ==
    LET keys == SetToSeq(DOMAIN dict)
    IN  [i \in 1..Len(keys) |-> dict[keys[i]]]

SubsectionsQualityAtMostOneType(ctx, course, req) ==
    LET d == GetSubsectionsAndUnits(ctx, course, req)
        n == Values([s \in DOMAIN d.val |-> NumBlockTypes(d.val[s])])
    IN  [val |-> [total_visible |-> Len(n),
                  num_with_one_block_type |-> Len(SelectSeq(n, LAMBDA x : x <= 1)),
                  num_block_types |-> StatsDict(n)],
         ctx |-> d.ctx]

\* _subsections_quality
SubsectionsQuality(ctx, course, req) ==
    LET d == GetSubsectionsAndUnits(ctx, course, req)
        n == Values([s \in DOMAIN d.val |-> NumBlockTypes(d.val[s])])
    IN  [val |-> [total_visible |-> Len(n),
                  num_with_one_block_type |-> Len(SelectSeq(n, LAMBDA x : x = 1)),
                  num_block_types |-> StatsDict(n)],
         ctx |-> d.ctx]

\* _units_quality
UnitsQuality(ctx, course, req) ==
    LET d == GetSubsectionsAndUnits(ctx, course, req)
        per_subsection ==
            Values([s \in DOMAIN d.val |->
                       Values([u \in DOMAIN d.val[s] |->
                                  d.val[s][u].num_leaf_blocks])])
        num_leaf_blocks_per_unit == Flatten(per_subsection)
    IN  [val |-> [total_visible |-> Len(num_leaf_blocks_per_unit),
                  num_blocks |-> StatsDict(num_leaf_blocks_per_unit)],
         ctx |-> d.ctx]

VideosQualityEncodedAsTotal(ctx, course) ==
    LET video_blocks_in_course ==
            {k \in DOMAIN store : store[k].block_type = "video"}
        video_durations == [i \in 1..Len(valVideos) |-> valVideos[i].duration]
    IN  [val |-> [total_number |-> Len(valVideos),
                  num_mobile_encoded |-> Len(valVideos),
                  num_with_val_id |->
                      Cardinality({v \in video_blocks_in_course :
                                      store[v].edx_video_id # ""}),
                  durations |-> StatsDict(video_durations)],
         ctx |-> [ctx EXCEPT !.calls = @ \cup {"get_items"}]]

\* _videos_quality: get_items finds every video block of the course, and
\* get_videos_for_course is valVideos.
VideosQuality(ctx, course) ==
    LET video_blocks_in_course ==
            {k \in DOMAIN store : store[k].block_type = "video"}
        video_durations == [i \in 1..Len(valVideos) |-> valVideos[i].duration]
    IN  [val |-> [total_number |-> Cardinality(video_blocks_in_course),
                  num_mobile_encoded |-> Len(valVideos),
                  num_with_val_id |->
                      Cardinality({v \in video_blocks_in_course :
                                      store[v].edx_video_id # ""}),
                  durations |-> StatsDict(video_durations)],
         ctx |-> [ctx EXCEPT !.calls = @ \cup {"get_items"}]]

-----------------------------------------------------------------------------
(* The handler. *)

RequestedIgnoringAll(req, section) == GetBoolParam(req, section, FALSE)

\* Whether get computes a report section: "all" is the parameter's default.
Requested(req, section) ==
    GetBoolParam(req, section, GetBoolParam(req, "all", FALSE))

NotComputed(ctx) == [val |-> None, ctx |-> ctx]

DeniedAfterLoading(req) ==
    [response |-> [status |-> HTTP_403_FORBIDDEN,
                   body |-> [error_code |-> "user_mismatch"]],
     ctx |-> [cache |-> requestCache, runs |-> NoRuns,
              calls |-> {"bulk_operations", "get_course"}],
     depth |-> RequiredCourseDepth(req, GetBoolParam(req, "all", FALSE))]

\* get, for a user without course author access: the error response, made
\* before the store is touched.
Denied(req) ==
    [response |-> [status |-> HTTP_403_FORBIDDEN,
                   body |-> [error_code |-> "user_mismatch"]],
     ctx |-> [cache |-> requestCache, runs |-> NoRuns, calls |-> {}],
     depth |-> "not loaded"]

\* get, for a course author: the course is loaded in one bulk operation and
\* the requested sections are computed in turn.
Report(req) ==
    LET course == CourseKey
        all_requested == GetBoolParam(req, "all", FALSE)
        loaded == [cache |-> requestCache, runs |-> NoRuns,
                   calls |-> {"bulk_operations", "get_course"}]
        sections == IF Requested(req, "sections")
                    THEN SectionsQuality(loaded, course)
                    ELSE NotComputed(loaded)
        subsections == IF Requested(req, "subsections")
                       THEN SubsectionsQuality(sections.ctx, course, req)
                       ELSE NotComputed(sections.ctx)
        units == IF Requested(req, "units")
                 THEN UnitsQuality(subsections.ctx, course, req)
                 ELSE NotComputed(subsections.ctx)
        videos == IF Requested(req, "videos")
                  THEN VideosQuality(units.ctx, course)
                  ELSE NotComputed(units.ctx)
        keys == {"is_self_paced"}
                    \cup {k \in {"sections", "subsections", "units", "videos"} :
                             Requested(req, k)}
    IN  [response |->
            [status |-> HTTP_200_OK,
             body |-> [k \in keys |->
                          CASE k = "is_self_paced" -> store[course].self_paced
                            [] k = "sections" -> sections.val
                            [] k = "subsections" -> subsections.val
                            [] k = "units" -> units.val
                            [] k = "videos" -> videos.val]],
         ctx |-> videos.ctx,
         depth |-> RequiredCourseDepth(req, all_requested)]

\* CourseQualityView.get
Get(req) ==
    LET done == IF ~HasCourseAuthorAccess(req) THEN Denied(req) ELSE Report(req)
    IN  /\ request = NoRequest
        /\ request' = req
        /\ response' = done.response
        /\ storeCalls' = done.ctx.calls
        /\ loadDepth' = done.depth
        /\ requestCache' = done.ctx.cache
        /\ bodyRuns' = done.ctx.runs
        /\ UNCHANGED <<store, valVideos, editsLeft>>

\* The response is returned and the request ends: the RequestCache
\* middleware clears the cache.
EndRequest ==
    /\ request # NoRequest
    /\ request' = NoRequest
    /\ response' = NoResponse
    /\ storeCalls' = {}
    /\ loadDepth' = "not loaded"
    /\ requestCache' = EmptyRequestCache
    /\ bodyRuns' = NoRuns
    /\ UNCHANGED <<store, valVideos, editsLeft>>

-----------------------------------------------------------------------------
(* The environment: course authors and the video pipeline edit the course *)
(* between requests.                                                       *)

Edited ==
    /\ request = NoRequest
    /\ editsLeft > 0
    /\ editsLeft' = editsLeft - 1
    /\ UNCHANGED <<request, response, storeCalls, loadDepth, requestCache,
                   bodyRuns>>

SetStaffOnly ==
    \E k \in DOMAIN store :
        /\ ~store[k].visible_to_staff_only
        /\ store' = [store EXCEPT ![k].visible_to_staff_only = TRUE]
        /\ Edited
        /\ UNCHANGED valVideos

SetHideFromToc ==
    \E k \in DOMAIN store :
        /\ ~store[k].hide_from_toc
        /\ store' = [store EXCEPT ![k].hide_from_toc = TRUE]
        /\ Edited
        /\ UNCHANGED valVideos

SetGraded ==
    \E k \in DOMAIN store :
        /\ store[k].block_type = "sequential"
        /\ store' = [store EXCEPT ![k].graded = ~@]
        /\ Edited
        /\ UNCHANGED valVideos

SetHighlights ==
    \E k \in DOMAIN store :
        /\ store[k].block_type = "chapter"
        /\ store' = [store EXCEPT
                        ![k].highlights = IF @ = <<>> THEN <<"week 1">> ELSE <<>>]
        /\ Edited
        /\ UNCHANGED valVideos

SetVideoId ==
    \E k \in DOMAIN store :
        /\ store[k].block_type = "video"
        /\ store' = [store EXCEPT
                        ![k].edx_video_id = IF @ = "" THEN "val-new" ELSE ""]
        /\ Edited
        /\ UNCHANGED valVideos

RECURSIVE Subtree(_)
Subtree(k) ==
    {k} \cup UNION {Subtree(c) :
                       c \in (IF "children" \in DOMAIN store[k]
                              THEN Range(store[k].children) ELSE {})}

DeleteItem ==
    \E k \in DOMAIN store \ {CourseKey} :
        /\ store' =
              [j \in DOMAIN store \ Subtree(k) |->
                  IF "children" \in DOMAIN store[j]
                  THEN [store[j] EXCEPT
                           !.children = SelectSeq(@, LAMBDA c : c # k)]
                  ELSE store[j]]
        /\ Edited
        /\ UNCHANGED valVideos

ValEncode ==
    \E d \in 1..MaxDuration :
        /\ valVideos' = Append(valVideos, [duration |-> d])
        /\ Edited
        /\ UNCHANGED store

ValDelete ==
    /\ valVideos # <<>>
    /\ valVideos' = Tail(valVideos)
    /\ Edited
    /\ UNCHANGED store

Edit ==
    \/ SetStaffOnly
    \/ SetHideFromToc
    \/ SetGraded
    \/ SetHighlights
    \/ SetVideoId
    \/ DeleteItem
    \/ ValEncode
    \/ ValDelete

-----------------------------------------------------------------------------
(* Requests. *)

Params(all, sections, subsections, units, videos, exclude_graded) ==
    [all |-> all, sections |-> sections, subsections |-> subsections,
     units |-> units, videos |-> videos, exclude_graded |-> exclude_graded]

\* The whole report, with and without the graded subsections.
ReportRequests ==
    {[params |-> Params("true", Absent, Absent, Absent, Absent, eg),
      author |-> a] :
        eg \in {Absent, "True"}, a \in BOOLEAN}

\* Every way of asking for report sections.
SectionRequests ==
    {[params |-> Params(p[1], p[2], p[3], p[4], p[5], Absent), author |-> a] :
        p \in [1..5 -> {Absent, "true", "false"}], a \in BOOLEAN}

\* The videos section alone.
VideoRequests ==
    {[params |-> Params(Absent, Absent, Absent, Absent, "true", Absent),
      author |-> a] : a \in BOOLEAN}

\* _stats_dict inputs.
StatsInputs ==
    UNION {[1..n -> (0 - MaxAbs)..MaxAbs] : n \in 0..MaxLen}

-----------------------------------------------------------------------------
(* Specifications. *)

InitWith(edits, videos) ==
    /\ store = ReferenceCourse
    /\ valVideos = videos
    /\ editsLeft = edits
    /\ request = NoRequest
    /\ response = NoResponse
    /\ storeCalls = {}
    /\ loadDepth = "not loaded"
    /\ requestCache = EmptyRequestCache
    /\ bodyRuns = NoRuns

\* Courses: the reference course after at most MaxEdits edits, asked for
\* the whole report.
Init == InitWith(MaxEdits, ReferenceValVideos)

GetReport == \E req \in ReportRequests : Get(req)

Next == Edit \/ GetReport \/ EndRequest

Spec == Init /\ [][Next]_vars

\* Requests: every way of asking, of the reference course after at most
\* MaxEdits - 1 deletions.
InitRequests == InitWith(MaxEdits - 1, ReferenceValVideos)

GetSectionsOfReport == \E req \in SectionRequests : Get(req)

NextRequests == DeleteItem \/ GetSectionsOfReport \/ EndRequest

SpecRequests == InitRequests /\ [][NextRequests]_vars

\* Statistics: the video pipeline returns any durations.
InitStats ==
    \E data \in StatsInputs :
        InitWith(0, [i \in 1..Len(data) |-> [duration |-> data[i]]])

GetVideos == \E req \in VideoRequests : Get(req)

NextStats == GetVideos \/ EndRequest

SpecStats == InitStats /\ [][NextStats]_vars

-----------------------------------------------------------------------------
(* What the report is about, read off the store directly. *)

Answered == response.status = HTTP_200_OK
Body == response.body
Reported(section) == Answered /\ section \in DOMAIN Body

ReportSections == {"sections", "subsections", "units", "videos"}

ChildKeys(k) ==
    IF "children" \in DOMAIN store[k] THEN Range(store[k].children) ELSE {}

\* a is k or an ancestor of k.
OnPathTo(a, k) == k \in Subtree(a)

LearnerVisible(k) ==
    store[k].visible_to_staff_only = FALSE /\ store[k].hide_from_toc = FALSE

\* k is staff-only, or is reached only through a staff-only block below the
\* course.
StaffOnlyBranch(k) ==
    \E a \in DOMAIN store \ {CourseKey} :
        store[a].visible_to_staff_only /\ OnPathTo(a, k)

ExcludeGradedSet == request.params["exclude_graded"] \in {"true", "True", "TRUE"}

AllSections == ChildKeys(CourseKey)
VisibleSectionKeys == {k \in AllSections : LearnerVisible(k)}
VisibleSubsectionKeys ==
    {k \in UNION {ChildKeys(s) : s \in VisibleSectionKeys} : LearnerVisible(k)}
GradedSubsectionKeys == {k \in VisibleSubsectionKeys : store[k].graded}
\* The subsections a request reports on.
ReportedSubsectionKeys ==
    IF ExcludeGradedSet THEN VisibleSubsectionKeys \ GradedSubsectionKeys
    ELSE VisibleSubsectionKeys
VisibleUnitKeys(subsection) ==
    {k \in ChildKeys(subsection) : LearnerVisible(k)}
ReportedUnitKeys == UNION {VisibleUnitKeys(s) : s \in ReportedSubsectionKeys}

\* The blocks without children that are reached from the unit through
\* learner-visible blocks only: every block on the way below the unit, the
\* leaf included, is learner-visible.
VisibleLeaves(unit) ==
    {k \in Subtree(unit) :
        /\ ChildKeys(k) = {}
        /\ \A a \in Subtree(unit) \ {unit} :
              ~LearnerVisible(a) => ~OnPathTo(a, k)}

\* Every block below (and with) k, parents first, children in their order.
RECURSIVE PreOrder(_)
PreOrder(k) ==
    <<k>> \o Flatten([i \in 1..Len(GetChildren(k)) |-> PreOrder(GetChildren(k)[i])])

BlockTypes(keys) == {store[k].block_type : k \in keys}

\* The leaf block types of a subsection's visible units.
SubsectionTypes(subsection) ==
    BlockTypes(UNION {VisibleLeaves(u) : u \in VisibleUnitKeys(subsection)})

\* What the request cache holds at the end of the request.
CachedSections == requestCache.get_sections[1]
CachedDict == requestCache.get_subsections_and_units[1]
HasCachedSections == requestCache.get_sections # None
HasCachedDict == requestCache.get_subsections_and_units # None

-----------------------------------------------------------------------------
(* Claims about the handler, checked under SpecRequests. *)

\* C1: a request of a user without course author access ends with the 403
\* error response, no store operation has been invoked for it, the course was
\* not loaded, and the response holds no field of the report.
C1_AccessCheckPrecedesStore ==
    (request # NoRequest /\ ~request.author) =>
        /\ response.status = HTTP_403_FORBIDDEN
        /\ storeCalls = {}
        /\ loadDepth = "not loaded"
        /\ DOMAIN Body \cap ({"is_self_paced"} \cup ReportSections) = {}
        /\ bodyRuns = NoRuns

\* A refused request that asked for the whole report.
C1_Witness ==
    /\ request # NoRequest
    /\ ~request.author
    /\ request.params["all"] = "true"
    /\ response.status = HTTP_403_FORBIDDEN

C7_BodiesRunAtMostOnce ==
    /\ bodyRuns.get_sections <= 1
    /\ bodyRuns.get_subsections_and_units <= 1
    /\ request = NoRequest => requestCache = EmptyRequestCache
    /\ Answered =>
        /\ bodyRuns.get_sections =
              IF DOMAIN Body \cap {"sections", "subsections", "units"} # {}
              THEN 1 ELSE 0
        /\ bodyRuns.get_subsections_and_units =
              IF DOMAIN Body \cap {"subsections", "units"} # {} THEN 1 ELSE 0
        /\ HasCachedSections <=> bodyRuns.get_sections = 1
        /\ HasCachedDict <=> bodyRuns.get_subsections_and_units = 1
        /\ HasCachedSections =>
              /\ CachedSections.children = GetChildren(CourseKey)
              /\ Range(CachedSections.visible_children) = VisibleSectionKeys

\* Sections, subsections and units are all reported, from one run of each body.
C7_Witness ==
    /\ Answered
    /\ {"sections", "subsections", "units"} \subseteq DOMAIN Body
    /\ request.params["all"] # "true"
    /\ bodyRuns.get_sections = 1
    /\ bodyRuns.get_subsections_and_units = 1

-----------------------------------------------------------------------------
(* Claims about the report, checked under Spec. *)

\* C8: the sections report counts all children of the course in total_number,
\* the learner-visible ones in total_visible and the learner-visible ones with
\* a highlight in number_with_highlights; so number_with_highlights <=
\* total_visible <= total_number, and all three are 0 for a course without
\* sections.
C8_SectionsReport ==
    Reported("sections") =>
        /\ Body["sections"].total_number = Len(store[CourseKey].children)
        /\ Body["sections"].total_visible = Cardinality(VisibleSectionKeys)
        /\ Body["sections"].number_with_highlights =
              Cardinality({k \in VisibleSectionKeys : store[k].highlights # <<>>})
        /\ Body["sections"].number_with_highlights <= Body["sections"].total_visible
        /\ Body["sections"].total_visible <= Body["sections"].total_number
        /\ AllSections = {} =>
              /\ Body["sections"].total_number = 0
              /\ Body["sections"].total_visible = 0
              /\ Body["sections"].number_with_highlights = 0

\* A section with a highlight that learners do not see, beside one they do.
C8_Witness ==
    /\ Reported("sections")
    /\ \E k \in AllSections : ~LearnerVisible(k) /\ store[k].highlights # <<>>
    /\ Body["sections"].total_number = 2
    /\ Body["sections"].total_visible = 1
    /\ Body["sections"].number_with_highlights = 0

\* C2: no staff-only block, and no block reached only through one, is among
\* the sections, subsections and units the report counts, or among the leaf
\* blocks it counts for a unit; and the report's numbers are the sizes and
\* statistics of exactly the blocks counted.
C2_StaffOnlyNeverCounted ==
    /\ (Answered /\ HasCachedSections) =>
          \A k \in Range(CachedSections.visible_children) : ~StaffOnlyBranch(k)
    /\ Reported("sections") =>
          /\ Body["sections"].total_visible
                = Cardinality(Range(CachedSections.visible_children))
          /\ Body["sections"].number_with_highlights
                = Cardinality({k \in Range(CachedSections.visible_children) :
                                  store[k].highlights # <<>>})
    /\ (Answered /\ HasCachedDict) =>
          \A s \in DOMAIN CachedDict :
              /\ ~StaffOnlyBranch(s)
              /\ \A u \in DOMAIN CachedDict[s] :
                    /\ ~StaffOnlyBranch(u)
                    /\ \A b \in Range(GetLeafBlocks(u)) : ~StaffOnlyBranch(b)
                    /\ CachedDict[s][u].num_leaf_blocks
                          = Cardinality({b \in VisibleLeaves(u) : ~StaffOnlyBranch(b)})
                    /\ CachedDict[s][u].leaf_block_types
                          = BlockTypes({b \in VisibleLeaves(u) : ~StaffOnlyBranch(b)})
    /\ Reported("subsections") =>
          LET sizes == Values([s \in DOMAIN CachedDict |->
                                  NumBlockTypes(CachedDict[s])])
          IN  /\ Body["subsections"].total_visible = Cardinality(DOMAIN CachedDict)
              /\ Body["subsections"].num_with_one_block_type
                    = Cardinality({s \in DOMAIN CachedDict :
                                      NumBlockTypes(CachedDict[s]) = 1})
              /\ Body["subsections"].num_block_types = StatsDict(sizes)
    /\ Reported("units") =>
          LET subsections == SetToSeq(DOMAIN CachedDict)
              units == Flatten([i \in 1..Len(subsections) |->
                                   SetToSeq(DOMAIN CachedDict[subsections[i]])])
          IN  /\ Body["units"].total_visible = Len(units)
              /\ Body["units"].num_blocks
                    = StatsDict([i \in 1..Len(units) |->
                                    Cardinality(VisibleLeaves(units[i]))])

\* A staff-only block below a unit, with a sibling that is counted, in a
\* report that holds every section.
C2_Witness ==
    /\ Reported("sections") /\ Reported("subsections") /\ Reported("units")
    /\ \E s \in DOMAIN CachedDict : \E u \in DOMAIN CachedDict[s] :
          /\ \E b \in ChildKeys(u) : store[b].visible_to_staff_only
          /\ CachedDict[s][u].num_leaf_blocks = 1
          /\ Cardinality(ChildKeys(u)) = 2

\* C9: for every unit, _get_leaf_blocks returns, each once and in pre-order,
\* exactly the blocks without children that are reached from the unit through
\* learner-visible blocks only; a block whose children are all filtered out
\* adds no leaf, and a unit without children is its own single leaf.  The
\* leaf count and the leaf block types recorded for a unit are those of that
\* list.
C9_LeafBlocks ==
    /\ Reported("units") =>
        \A u \in {k \in DOMAIN store : store[k].block_type = "vertical"} :
          /\ GetLeafBlocks(u)
                = SelectSeq(PreOrder(u), LAMBDA k : k \in VisibleLeaves(u))
          /\ Cardinality(Range(GetLeafBlocks(u))) = Len(GetLeafBlocks(u))
          /\ ChildKeys(u) = {} => GetLeafBlocks(u) = <<u>>
          /\ \A b \in Subtree(u) :
                (ChildKeys(b) # {} /\ \A c \in ChildKeys(b) : ~LearnerVisible(c))
                    => Range(GetLeafBlocks(u)) \cap Subtree(b) = {}
    /\ (Answered /\ HasCachedDict) =>
          \A s \in DOMAIN CachedDict : \A u \in DOMAIN CachedDict[s] :
              /\ CachedDict[s][u].num_leaf_blocks = Cardinality(VisibleLeaves(u))
              /\ CachedDict[s][u].leaf_block_types = BlockTypes(VisibleLeaves(u))

\* A counted unit holding a block whose only child is filtered out, and one
\* leaf beside it.
C9_Witness ==
    /\ Reported("units")
    /\ \E s \in DOMAIN CachedDict : \E u \in DOMAIN CachedDict[s] :
          /\ \E b \in ChildKeys(u) :
                /\ LearnerVisible(b)
                /\ ChildKeys(b) # {}
                /\ \A c \in ChildKeys(b) : ~LearnerVisible(c)
          /\ CachedDict[s][u].num_leaf_blocks = 1
          /\ Len(PreOrder(u)) = 4

\* The list of the values f takes on a set of keys, in key order.
Over(keys, f(_)) ==
    LET seq == SetToSeq(keys) IN [i \in 1..Len(seq) |-> f(seq[i])]

NumLeaves(unit) == Cardinality(VisibleLeaves(unit))
NumTypes(subsection) == Cardinality(SubsectionTypes(subsection))

\* C6: on one course, the subsections total_visible of a request with
\* exclude_graded set is the number of learner-visible subsections under
\* learner-visible sections less the graded ones among them, and without
\* exclude_graded it is that number itself: never more with than without, the
\* difference being the graded ones.  The units report counts the units of
\* the subsections reported on only.
C6_ExcludeGraded ==
    /\ Reported("subsections") =>
          /\ Body["subsections"].total_visible
                = Cardinality(VisibleSubsectionKeys)
                    - (IF ExcludeGradedSet THEN Cardinality(GradedSubsectionKeys)
                       ELSE 0)
          /\ Body["subsections"].total_visible <= Cardinality(VisibleSubsectionKeys)
    /\ Reported("units") =>
          /\ Body["units"].total_visible = Cardinality(ReportedUnitKeys)
          /\ Body["units"].num_blocks = StatsDict(Over(ReportedUnitKeys, NumLeaves))
          /\ ExcludeGradedSet =>
                \A s \in GradedSubsectionKeys :
                    /\ s \notin DOMAIN CachedDict
                    /\ \A t \in DOMAIN CachedDict :
                          DOMAIN CachedDict[t] \cap ChildKeys(s) = {}

\* Graded subsections are excluded from a course that has a learner-visible
\* graded subsection with a learner-visible unit, and an ungraded one.
C6_Witness ==
    /\ Reported("subsections") /\ Reported("units")
    /\ ExcludeGradedSet
    /\ \E s \in GradedSubsectionKeys : VisibleUnitKeys(s) # {}
    /\ Body["subsections"].total_visible = 1
    /\ Cardinality(VisibleSubsectionKeys) = 2
    /\ Body["units"].total_visible = 2

\* C10: the subsections reported on are the learner-visible subsections
\* under learner-visible sections (less the graded ones in a request that
\* excludes them, C6).  total_visible is their number (one without a
\* visible unit has 0 types and counts), num_with_one_block_type the number of
\* them whose units' leaf block types are exactly one type, num_block_types
\* the statistics of their numbers of types.
C10_SubsectionsReport ==
    Reported("subsections") =>
        /\ Body["subsections"].total_visible = Cardinality(ReportedSubsectionKeys)
        /\ Body["subsections"].num_with_one_block_type
              = Cardinality({s \in ReportedSubsectionKeys : NumTypes(s) = 1})
        /\ Body["subsections"].num_with_one_block_type
              <= Body["subsections"].total_visible
        /\ Body["subsections"].num_block_types
              = StatsDict(Over(ReportedSubsectionKeys, NumTypes))
        /\ ReportedSubsectionKeys # {} =>
              /\ Body["subsections"].num_block_types.min
                    = Num(CHOOSE n \in {NumTypes(s) : s \in ReportedSubsectionKeys} :
                              \A s \in ReportedSubsectionKeys : n <= NumTypes(s))
              /\ Body["subsections"].num_block_types.max
                    = Num(CHOOSE n \in {NumTypes(s) : s \in ReportedSubsectionKeys} :
                              \A s \in ReportedSubsectionKeys : NumTypes(s) <= n)
        /\ \A s \in ReportedSubsectionKeys :
              VisibleUnitKeys(s) = {} => NumTypes(s) = 0

\* One section hidden; the other's subsection has a unit of two videos and a
\* unit of one html block: two types, not counted as one.
C10_Witness ==
    /\ Reported("subsections")
    /\ Cardinality(AllSections) = 2
    /\ Cardinality(VisibleSectionKeys) = 1
    /\ \E s \in ReportedSubsectionKeys :
          \E u, v \in VisibleUnitKeys(s) :
              /\ VisibleUnitKeys(s) = {u, v}
              /\ NumLeaves(u) = 2 /\ BlockTypes(VisibleLeaves(u)) = {"video"}
              /\ NumLeaves(v) = 1 /\ BlockTypes(VisibleLeaves(v)) = {"html"}
    /\ Body["subsections"] =
          [total_visible |-> 1, num_with_one_block_type |-> 0,
           num_block_types |-> [min |-> Num(2), max |-> Num(2), mean |-> Num(2),
                                median |-> Num(2), mode |-> Num(2)]]

NoStats ==
    [min |-> None, max |-> None, mean |-> None, median |-> None, mode |-> None]

VideoBlockKeys == {k \in DOMAIN store : store[k].block_type = "video"}

\* C4 as stated: for a course without video blocks the videos report is all
\* zeros and durations all None, whatever the video pipeline returns.
C4_AsStated ==
    (Reported("videos") /\ VideoBlockKeys = {}) =>
        /\ Body["videos"].total_number = 0
        /\ Body["videos"].num_with_val_id = 0
        /\ Body["videos"].num_mobile_encoded = 0
        /\ Body["videos"].durations = NoStats

\* C4, amended: for a course without video blocks total_number and
\* num_with_val_id are 0; num_mobile_encoded is the number of records the
\* video pipeline returns for the course and durations their statistics: 0
\* and all None exactly when the pipeline returns no record.
C4_NoVideoBlocks ==
    (Reported("videos") /\ VideoBlockKeys = {}) =>
        /\ Body["videos"].total_number = 0
        /\ Body["videos"].num_with_val_id = 0
        /\ Body["videos"].num_mobile_encoded = Len(valVideos)
        /\ (Body["videos"].durations = NoStats) <=> (valVideos = <<>>)
        /\ valVideos # <<>> =>
              /\ \E i \in 1..Len(valVideos) :
                    Body["videos"].durations.min = Num(valVideos[i].duration)
              /\ \A i \in 1..Len(valVideos) :
                    /\ Body["videos"].durations.min[1] <= valVideos[i].duration
                    /\ Body["videos"].durations.max[1] >= valVideos[i].duration

\* A course without video blocks for which the pipeline holds no record.
C4_Witness ==
    /\ Reported("videos")
    /\ VideoBlockKeys = {}
    /\ valVideos = <<>>
    /\ Body["videos"].durations = NoStats

-----------------------------------------------------------------------------
(* Claims about _stats_dict, checked under SpecStats: the durations the    *)
(* video pipeline returns are its input, durations of the report its       *)
(* result.                                                                 *)

Durations == [i \in 1..Len(valVideos) |-> valVideos[i].duration]

Abs(x) == IF x < 0 THEN 0 - x ELSE x

\* The k-th smallest of the durations.
KthSmallest(k) ==
    CHOOSE v \in Range(Durations) :
        /\ Cardinality({i \in 1..Len(Durations) : Durations[i] < v}) < k
        /\ Cardinality({i \in 1..Len(Durations) : Durations[i] <= v}) >= k

\* The median of the durations as a fraction <<p, q>>.
MedianFraction ==
    LET n == Len(Durations)
    IN  IF n % 2 = 1 THEN <<KthSmallest((n + 1) \div 2), 1>>
        ELSE <<KthSmallest(n \div 2) + KthSmallest(n \div 2 + 1), 2>>

MeanFraction == <<SumSeq(Durations), Len(Durations)>>

\* r is p/q (q > 0) rounded to the nearest integer, an exact half away from
\* zero.
IsRoundedHalfAwayFromZero(r, p, q) ==
    /\ Abs(2 * p - 2 * q * r) <= q
    /\ Abs(2 * p - 2 * q * r) = q => Abs(2 * q * r) > Abs(2 * p)

\* r is p/q (q > 0) rounded to the nearest integer, an exact half to the even
\* neighbour.
IsRoundedHalfToEven(r, p, q) ==
    /\ Abs(2 * p - 2 * q * r) <= q
    /\ Abs(2 * p - 2 * q * r) = q => r % 2 = 0

StatsExtremesExact ==
    /\ Body["videos"].durations.min[1] \in Range(Durations)
    /\ Body["videos"].durations.max[1] \in Range(Durations)
    /\ \A d \in Range(Durations) :
          /\ Body["videos"].durations.min[1] <= d
          /\ d <= Body["videos"].durations.max[1]

\* C5 as stated: for a non-empty sequence of integers mean and median are
\* rounded to the nearest integer, exact halves away from zero; min and max
\* are the extremes.
C5_AsStated ==
    (Reported("videos") /\ Durations # <<>>) =>
        /\ IsRoundedHalfAwayFromZero(Body["videos"].durations.mean[1],
                                     MeanFraction[1], MeanFraction[2])
        /\ IsRoundedHalfAwayFromZero(Body["videos"].durations.median[1],
                                     MedianFraction[1], MedianFraction[2])
        /\ StatsExtremesExact

\* C5, amended: for a non-empty sequence of integers mean and median are
\* rounded to the nearest integer, exact halves to the nearest even integer
\* (2.5 to 2, 0.5 to 0, 1.5 to 2); min and max are the extremes.
C5_RoundsHalfToEven ==
    (Reported("videos") /\ Durations # <<>>) =>
        /\ IsRoundedHalfToEven(Body["videos"].durations.mean[1],
                               MeanFraction[1], MeanFraction[2])
        /\ IsRoundedHalfToEven(Body["videos"].durations.median[1],
                               MedianFraction[1], MedianFraction[2])
        /\ StatsExtremesExact

\* A median and a mean of 2.5, both reported as 2.
C5_Witness ==
    /\ Reported("videos")
    /\ Durations = <<3, 2>>
    /\ MedianFraction = <<5, 2>>
    /\ MeanFraction = <<5, 2>>
    /\ Body["videos"].durations.median = Num(2)
    /\ Body["videos"].durations.mean = Num(2)
    /\ Body["videos"].durations.min = Num(2)
    /\ Body["videos"].durations.max = Num(3)

=============================================================================
